---------------------------- MODULE Spec2Model ----------------------------
(***************************************************************************)
(* Rizon backend: passwordless login tokens, their redemption into         *)
(* sessions, the login rate limit and idempotent feedback submission.      *)
(*                                                                         *)
(* Every HTTP handler runs as its own task against the shared MongoDB      *)
(* collections.  A handler is split into one action per store operation    *)
(* (and per read of the clock): these are the points at which other        *)
(* requests, the clock and the TTL monitor interleave.  Time is counted    *)
(* in minutes.  A store operation answers, or, while the database is in    *)
(* an outage, may fail with an error that is no duplicate-key error.       *)
(***************************************************************************)
EXTENDS Integers, FiniteSets, Sequences, TLC

(* ------------------------------ bounds --------------------------------- *)
\* concurrent GET /auth/verify requests
NumVerify == 2
\* token records in the store when the verify requests arrive
NumTokens == 2
\* the clock runs from 0 to MaxTime, in steps of Tick minutes
MaxTime == 20
Tick == 5
\* login request slots; SpecLogin serves its requests one after another
NumLogin == 2
\* token records RequestLogin may create in one run
MaxIssued == 6
\* concurrent POST /feedback requests
NumFeedback == 2

(* ------------------------- program constants --------------------------- *)
\* ExpiresAt: time.Now().Add(15 * time.Minute)
ExpiryMinutes == 15
\* CountRecentByEmail(ctx, email, 10*time.Minute)
WindowMinutes == 10
\* if count >= 5
RateLimit == 5

Emails == {"a@ex.com", "b@ex.com"}

\* the three unique indexes main() asks the repositories to create
IdxToken == "auth_tokens.token"
IdxEmail == "users.email"
IdxKey == "feedbacks.idempotency_key"
AllIndexes == {IdxToken, IdxEmail, IdxKey}

VARIABLES
    now,        \* the wall clock, time.Now()
    indexes,    \* the unique indexes in force in the database
    outage,     \* TRUE while store operations may fail
    srv,        \* the server process: main()'s progress and its JWT secret
    oreq,       \* the latest PATCH /user/onboarding request and its answer
    tokens,     \* collection auth_tokens
    users,      \* collection users
    nextUid,    \* the next ObjectID the users collection hands out
    vreq,       \* the GET /auth/verify requests
    nextTid,    \* the next ObjectID the auth_tokens collection hands out
    lreq,       \* the POST /auth/request requests
    feedbacks,  \* collection feedbacks
    nextFid,    \* the next ObjectID the feedbacks collection hands out
    freq        \* the POST /feedback requests

vars == <<now, indexes, outage, srv, oreq, tokens, users, nextUid, vreq, nextTid, lreq,
          feedbacks, nextFid, freq>>

\* what the login handler, and what the feedback handler, read and write
loginVars == <<nextTid, lreq>>
feedbackVars == <<feedbacks, nextFid, freq>>

(* -------------------------------- main --------------------------------- *)
\* the server once main() has reached ListenAndServe with a JWT secret
Serving(secret) == [pc |-> "serving", mongoURI |-> "mongodb://db",
                    jwtSecret |-> secret, connected |-> TRUE]

\* the process before main() runs
Booting == [pc |-> "boot", mongoURI |-> "", jwtSecret |-> "", connected |-> FALSE]

\* the values MONGODB_URI and JWT_SECRET may have ("" is unset or empty)
MongoURIs == {"", "mongodb://db"}
JWTSecrets == {"", "secret"}

\* a startup that does not ask for the JWT secret
StartupOutcomeAnySecret(uri, secret, connected) ==
    IF uri = "" THEN "fatal"
    ELSE IF ~connected THEN "fatal"
    ELSE "serving"

\* part_004 60-70: log.Fatal on an empty MONGODB_URI, on an empty
\* JWT_SECRET, and on a failed Connect; otherwise main goes on to serve
StartupOutcome(uri, secret, connected) ==
    IF uri = "" THEN "fatal"
    ELSE IF secret = "" THEN "fatal"
    ELSE IF ~connected THEN "fatal"
    ELSE "serving"

\* part_004 50-141: main() from the environment to ListenAndServe.  Connect
\* is attempted only with both variables set; each EnsureIndexes call may
\* fail, which is only logged, so any subset of the indexes is created.
Main ==
    /\ srv.pc = "boot"
    /\ \E uri \in MongoURIs, secret \in JWTSecrets, pinged \in BOOLEAN,
          created \in SUBSET AllIndexes :
          LET outcome == StartupOutcome(uri, secret, pinged)
              connected == pinged /\ StartupOutcome(uri, secret, TRUE) = "serving"
          IN  /\ srv' = [pc |-> outcome, mongoURI |-> uri, jwtSecret |-> secret,
                         connected |-> connected]
              /\ indexes' = IF outcome = "serving" THEN indexes \cup created
                                                   ELSE indexes
    /\ UNCHANGED <<now, outage, oreq, tokens, users, nextUid, vreq, loginVars, feedbackVars>>

(* ----------------------------- responses ------------------------------- *)
\* the JWT VerifyToken signs: the claims user_id and email, and the key of
\* the signature
Credential(u, secret) == [user_id |-> u.id, email |-> u.email, key |-> secret]

\* writeJSON(w, status, {"error": msg})
ErrorResp(status, msg) == [code |-> status, error |-> msg, user |-> {}, token |-> {}]
\* writeJSON(w, http.StatusOK, VerifyResponse{Token, User})
VerifyResponse(u) == [code |-> 200, error |-> "", user |-> {u},
                      token |-> {Credential(u, srv.jwtSecret)}]
NoResp == [code |-> 0, error |-> "", user |-> {}, token |-> {}]

\* the errors a store operation may return: FALSE is err == nil, TRUE an
\* error of the driver or the server
StoreErrs == IF outage THEN {FALSE, TRUE} ELSE {FALSE}
InternalError == ErrorResp(500, "internal server error")

(* --------------------------- models.AuthToken -------------------------- *)
\* time.Now().After(t.ExpiresAt)
IsExpired(t, clock) == clock > t.expires

(* ------------------------ repository.AuthTokenRepo --------------------- *)
\* FindOne({"token": token}): the matching documents ({} is ErrNoDocuments)
FindByToken(coll, tv) == {d \in coll : d.token = tv}

\* a MarkUsed that writes nothing
MarkUsedLost(coll, tv) == {[coll |-> coll, matched |-> 0, modified |-> 0]}

\* UpdateOne({"token": token}, {"$set": {"is_used": true}}): the possible
\* outcomes, each with the UpdateResult the caller discards
MarkUsed(coll, tv) ==
    IF FindByToken(coll, tv) = {}
    THEN {[coll |-> coll, matched |-> 0, modified |-> 0]}
    ELSE {[coll |-> (coll \ {d}) \cup {[d EXCEPT !.used = TRUE]},
           matched |-> 1,
           modified |-> IF d.used THEN 0 ELSE 1] : d \in FindByToken(coll, tv)}

\* CountDocuments({"email": email, "created_at": {"$gte": now - duration}})
CountRecentByEmail(coll, email, clock, duration) ==
    Cardinality({d \in coll : d.email = email /\ d.created >= clock - duration})

\* an insert that no index guards
TokenInsertUnguarded(coll, idx, tv) == TRUE

\* InsertOne under the unique index on token: TRUE when the insert is
\* accepted, FALSE when it is rejected with a duplicate-key error
TokenInsertAccepted(coll, idx, tv) ==
    ~(IdxToken \in idx /\ FindByToken(coll, tv) # {})

\* the TTL index on expires_at (expireAfterSeconds 0): documents the TTL
\* monitor may delete at time clock
Purgeable(coll, clock) == {d \in coll : d.expires <= clock}

(* -------------------------- repository.UserRepo ------------------------ *)
\* FindOne({"email": email})
FindByEmail(coll, email) == {u \in coll : u.email = email}

\* an insert that no index guards
UserInsertUnguarded(coll, idx, email) == TRUE

\* InsertOne under the unique index on email: TRUE when the insert is
\* accepted, FALSE when it is rejected with a duplicate-key error
UserInsertAccepted(coll, idx, email) ==
    ~(IdxEmail \in idx /\ FindByEmail(coll, email) # {})

\* a new user that starts with onboarding completed
NewUserOnboarded(id, email) == [id |-> id, email |-> email, onboarding |-> TRUE]

\* the document FindOrCreate builds and Create stores
NewUser(id, email) == [id |-> id, email |-> email, onboarding |-> FALSE]

(* ------------------------- GET /auth/verify ---------------------------- *)
\* values the token query parameter takes: 0 is the absent/empty parameter,
\* 1..NumTokens are issued values, NumTokens + 1 was never issued
TokenParams == 0 .. (NumTokens + 1)

\* modified is the ModifiedCount of the request's UpdateOne, -1 before it
VIdle == [pc |-> "idle", token |-> 0, authToken |-> {}, modified |-> -1,
          after200 |-> FALSE, resp |-> NoResp]

VDone(r, resp) == [vreq EXCEPT ![r].pc = "done", ![r].resp = resp]

\* some other request on the same token value has already answered 200
AnsweredOK(r, tv) ==
    \E q \in DOMAIN vreq : q # r /\ vreq[q].pc = "done"
                           /\ vreq[q].token = tv /\ vreq[q].resp.code = 200

\* auth.go 117-133: read the parameter, FindByToken
VerifyFind(r) ==
    /\ vreq[r].pc = "idle"
    /\ \E tv \in TokenParams, err \in StoreErrs :
          IF tv = 0
          THEN vreq' = VDone(r, ErrorResp(400, "token is required"))
          ELSE IF err
          THEN vreq' = [vreq EXCEPT ![r].pc = "done", ![r].token = tv,
                           ![r].after200 = AnsweredOK(r, tv),
                           ![r].resp = InternalError]
          ELSE IF FindByToken(tokens, tv) = {}
          THEN vreq' = [vreq EXCEPT ![r].pc = "done", ![r].token = tv,
                           ![r].after200 = AnsweredOK(r, tv),
                           ![r].resp = ErrorResp(401, "invalid token")]
          ELSE \E d \in FindByToken(tokens, tv) :
                  vreq' = [vreq EXCEPT ![r].pc = "check", ![r].token = tv,
                              ![r].after200 = AnsweredOK(r, tv),
                              ![r].authToken = {d}]
    /\ UNCHANGED <<now, indexes, outage, srv, oreq, tokens, users, nextUid, loginVars, feedbackVars>>

\* the two checks in the other order
CheckOutcomeUsedFirst(t, clock) ==
    IF t.used THEN "used" ELSE IF IsExpired(t, clock) THEN "expired" ELSE "valid"

\* auth.go 135-145: IsExpired is asked first, IsUsed second
CheckOutcome(t, clock) ==
    IF IsExpired(t, clock) THEN "expired" ELSE IF t.used THEN "used" ELSE "valid"

\* auth.go 135-145: IsExpired, then IsUsed, both on the document read above
VerifyCheck(r) ==
    /\ vreq[r].pc = "check"
    /\ \E t \in vreq[r].authToken :
          IF CheckOutcome(t, now) = "expired"
          THEN vreq' = VDone(r, ErrorResp(401, "token has expired"))
          ELSE IF CheckOutcome(t, now) = "used"
          THEN vreq' = VDone(r, ErrorResp(401, "token has already been used"))
          ELSE vreq' = [vreq EXCEPT ![r].pc = "mark"]
    /\ UNCHANGED <<now, indexes, outage, srv, oreq, tokens, users, nextUid, loginVars, feedbackVars>>

\* auth.go 147-152: MarkUsed; the error is nil whatever the update matched
VerifyMark(r) ==
    /\ vreq[r].pc = "mark"
    /\ \E res \in MarkUsed(tokens, vreq[r].token), err \in StoreErrs :
          IF err
          THEN vreq' = VDone(r, InternalError) /\ UNCHANGED tokens
          ELSE /\ tokens' = res.coll
               /\ vreq' = [vreq EXCEPT ![r].pc = "findUser",
                                       ![r].modified = res.modified]
    /\ UNCHANGED <<now, indexes, outage, srv, oreq, users, nextUid, loginVars, feedbackVars>>

\* user_repo.go 61-67 and auth.go 162-180: FindByEmail; a user that is
\* found is signed into the credential and returned
VerifyFindUser(r) ==
    /\ vreq[r].pc = "findUser"
    /\ \E t \in vreq[r].authToken, err \in StoreErrs :
          IF err
          THEN vreq' = VDone(r, InternalError)
          ELSE IF FindByEmail(users, t.email) = {}
          THEN vreq' = [vreq EXCEPT ![r].pc = "createUser"]
          ELSE \E u \in FindByEmail(users, t.email) :
                  vreq' = VDone(r, VerifyResponse(u))
    /\ UNCHANGED <<now, indexes, outage, srv, oreq, tokens, users, nextUid, loginVars, feedbackVars>>

\* user_repo.go 69-76, auth.go 156-160 and 162-180: Create; a rejected
\* insert is returned as the error and answered 500
VerifyCreateUser(r) ==
    /\ vreq[r].pc = "createUser"
    /\ \E t \in vreq[r].authToken, err \in StoreErrs :
          IF ~err /\ UserInsertAccepted(users, indexes, t.email)
          THEN /\ users' = users \cup {NewUser(nextUid, t.email)}
               /\ nextUid' = nextUid + 1
               /\ vreq' = VDone(r, VerifyResponse(NewUser(nextUid, t.email)))
          ELSE /\ vreq' = VDone(r, InternalError)
               /\ UNCHANGED <<users, nextUid>>
    /\ UNCHANGED <<now, indexes, outage, srv, oreq, tokens, loginVars, feedbackVars>>

(* ----------------------- PATCH /user/onboarding ------------------------ *)
\* an update that flips the flag
UpdateOnboardingFlipping(coll, id, completed) ==
    {IF u.id = id THEN [u EXCEPT !.onboarding = ~u.onboarding] ELSE u : u \in coll}

\* user_repo.go 79-87: UpdateOne({"_id": id}, {"$set": {"onboarding_completed":
\* completed}}); a filter that matches no document updates nothing
UpdateOnboarding(coll, id, completed) ==
    {IF u.id = id THEN [u EXCEPT !.onboarding = completed] ELSE u : u \in coll}

\* writeJSON(w, status, ...) of the user handler
OnboardingResp(status, err, msg) == [code |-> status, error |-> err, message |-> msg]

\* no PATCH /user/onboarding has arrived yet
ONone == [user |-> 0, resp |-> OnboardingResp(0, "", "")]

\* the user ids the JWT middleware leaves in the context: 0 is none, -1 is
\* no ObjectID hex, nextUid is the id of no stored user
CallerIDs == {0, -1, nextUid} \cup {u.id : u \in users}

\* user_repo.go 153-175: the caller's id, ObjectIDFromHex,
\* UpdateOnboarding(ctx, userID, true)
CompleteOnboarding ==
    /\ \E uid \in CallerIDs, err \in StoreErrs :
          IF uid = 0
          THEN /\ oreq' = [user |-> uid, resp |-> OnboardingResp(401, "unauthorized", "")]
               /\ UNCHANGED users
          ELSE IF uid = -1
          THEN /\ oreq' = [user |-> uid, resp |-> OnboardingResp(400, "invalid user ID", "")]
               /\ UNCHANGED users
          ELSE IF err
          THEN /\ oreq' = [user |-> uid,
                           resp |-> OnboardingResp(500, "failed to update onboarding status", "")]
               /\ UNCHANGED users
          ELSE /\ users' = UpdateOnboarding(users, uid, TRUE)
               /\ oreq' = [user |-> uid,
                           resp |-> OnboardingResp(200, "", "onboarding marked as completed")]
    /\ UNCHANGED <<now, indexes, outage, srv, tokens, nextUid, vreq, loginVars, feedbackVars>>

(* ------------------------- POST /auth/request -------------------------- *)
\* a token that expires inside the rate-limit window
IssuedTokenShortLived(id, email, tv, clock) ==
    [id |-> id, email |-> email, token |-> tv, created |-> clock,
     expires |-> clock + WindowMinutes - Tick, used |-> FALSE]

\* a token record as RequestLogin builds it and Create stores it at time
\* clock (ExpiresAt and CreatedAt are read from the clock back to back)
IssuedToken(id, email, tv, clock) ==
    [id |-> id, email |-> email, token |-> tv, created |-> clock,
     expires |-> clock + ExpiryMinutes, used |-> FALSE]

\* writeJSON(w, http.StatusOK, {"message": msg})
MessageResp(msg) == [code |-> 200, error |-> "", message |-> msg]
LoginError(status, msg) == [code |-> status, error |-> msg, message |-> ""]

LIdle == [pc |-> "idle", email |-> "", token |-> 0, prev |-> 0,
          resp |-> LoginError(0, "")]

LDone(r, resp) == [lreq EXCEPT ![r].pc = "done", ![r].resp = resp]

\* a rate limit that lets the fifth recent token through
RateLimitedOver(count) == count > RateLimit

\* auth.go 65: if count >= 5
RateLimited(count) == count >= RateLimit

\* a rejection that does not return: the handler goes on to create the token
RejectedFallingThrough(fresh, e) ==
    [fresh EXCEPT !.email = e, !.pc = "create",
                  !.resp = LoginError(429, "too many login requests, please try again later")]

\* auth.go 65-68: the request at the limit is answered 429 and returns
Rejected(fresh, e) ==
    [fresh EXCEPT !.email = e,
                  !.resp = LoginError(429, "too many login requests, please try again later")]

\* auth.go 47-68: decode the body, require the email, CountRecentByEmail,
\* reject at the limit.  A finished slot takes the next request.
LoginCount(r) ==
    /\ lreq[r].pc \in {"idle", "done"}
    /\ nextTid <= MaxIssued
    /\ \E decoded \in BOOLEAN, e \in Emails \cup {""}, err \in StoreErrs :
          LET fresh == [LIdle EXCEPT !.prev = lreq[r].resp.code, !.pc = "done"]
          IN  IF ~decoded
              THEN lreq' = [lreq EXCEPT ![r] =
                      [fresh EXCEPT !.resp = LoginError(400, "invalid request body")]]
              ELSE IF e = ""
              THEN lreq' = [lreq EXCEPT ![r] =
                      [fresh EXCEPT !.resp = LoginError(400, "email is required")]]
              ELSE IF err
              THEN lreq' = [lreq EXCEPT ![r] =
                      [fresh EXCEPT !.email = e,
                                    !.resp = LoginError(500, "internal server error")]]
              ELSE IF RateLimited(CountRecentByEmail(tokens, e, now, WindowMinutes))
              THEN lreq' = [lreq EXCEPT ![r] = Rejected(fresh, e)]
              ELSE lreq' = [lreq EXCEPT ![r] =
                      [fresh EXCEPT !.email = e, !.pc = "create"]]
    /\ UNCHANGED <<now, indexes, outage, srv, oreq, tokens, users, nextUid, vreq, nextTid, feedbackVars>>

\* auth.go 70-84: uuid.New() (a value no record holds, or by chance one that
\* a record holds), then Create; a rejected insert is answered 500
LoginCreate(r) ==
    /\ lreq[r].pc = "create"
    /\ \E tv \in {d.token : d \in tokens} \cup {nextTid}, err \in StoreErrs :
          IF ~err /\ TokenInsertAccepted(tokens, indexes, tv)
          THEN /\ tokens' = tokens \cup {IssuedToken(nextTid, lreq[r].email, tv, now)}
               /\ nextTid' = nextTid + 1
               /\ lreq' = [lreq EXCEPT ![r].pc = "email", ![r].token = tv]
          ELSE /\ lreq' = LDone(r, LoginError(500, "failed to create login token"))
               /\ UNCHANGED <<tokens, nextTid>>
    /\ UNCHANGED <<now, indexes, outage, srv, oreq, users, nextUid, vreq, feedbackVars>>

\* a failed send that fails the request
DeliveryAnswerFailing(sent) ==
    IF sent THEN MessageResp("login link sent to your email")
            ELSE LoginError(500, "failed to send login email")

\* auth.go 99-111: a failed send is logged and answered 200 all the same
DeliveryAnswer(sent) ==
    IF sent THEN MessageResp("login link sent to your email")
            ELSE MessageResp("login link generated (email delivery may be delayed)")

\* auth.go 86-111: sendLoginEmail, then the answer
LoginEmail(r) ==
    /\ lreq[r].pc = "email"
    /\ \E sent \in BOOLEAN : lreq' = LDone(r, DeliveryAnswer(sent))
    /\ UNCHANGED <<now, indexes, outage, srv, oreq, tokens, users, nextUid, vreq, nextTid, feedbackVars>>

(* ---------------------------- POST /feedback --------------------------- *)
\* FindOne({"idempotency_key": key})
FindByIdempotencyKey(coll, key) == {f \in coll : f.key = key}

\* an insert that no index guards
FeedbackInsertUnguarded(coll, idx, key) == TRUE

\* InsertOne under the unique (sparse) index on idempotency_key
FeedbackInsertAccepted(coll, idx, key) ==
    ~(IdxKey \in idx /\ FindByIdempotencyKey(coll, key) # {})

\* models.Feedback as SubmitFeedback builds it and Create stores it
NewFeedback(id, user, payload, key, clock) ==
    [id |-> id, user |-> user, text |-> payload.text, rating |-> payload.rating,
     key |-> key, created |-> clock]

\* request bodies: the text with its rating, and the idempotency key
Payloads == {[text |-> "good", rating |-> 5], [text |-> "bad", rating |-> 1]}
Keys == {"k1", "k2"}
NoPayload == [text |-> "", rating |-> 0]

\* the requests that arrive: the caller's id as the JWT middleware leaves it
\* (0: none), whether the body decodes, the body
Submissions(uids) ==
    {[uid |-> 0, decoded |-> TRUE, payload |-> NoPayload, key |-> ""]}
    \cup {[uid |-> u, decoded |-> FALSE, payload |-> NoPayload, key |-> ""] :
             u \in uids}
    \cup {[uid |-> u, decoded |-> TRUE, payload |-> NoPayload, key |-> k] :
             u \in uids, k \in Keys}
    \cup {[uid |-> u, decoded |-> TRUE, payload |-> p, key |-> k] :
             u \in uids, p \in Payloads, k \in Keys \cup {""}}

FeedbackError(status, msg) == [code |-> status, error |-> msg, feedback |-> {}]
\* writeJSON(w, status, {"message": ..., "feedback": f})
FeedbackResp(status, f) == [code |-> status, error |-> "", feedback |-> {f}]

FIdle == [pc |-> "idle", user |-> 0, payload |-> NoPayload,
          key |-> "", notify |-> "none", resp |-> FeedbackError(0, "")]

\* the handler has answered: its copy of the body is gone
FDone(r, resp) == [freq EXCEPT ![r].pc = "done", ![r].resp = resp,
                               ![r].payload = NoPayload]

\* a replay that publishes again
ReplayedNotifying(r, uid, key, existing) ==
    [freq EXCEPT ![r].pc = "done", ![r].user = uid, ![r].key = key,
                 ![r].notify = "started",
                 ![r].resp = FeedbackResp(200, existing)]

\* part_000 67-74: the key is stored already: answer 200 with that record
Replayed(r, uid, key, existing) ==
    [freq EXCEPT ![r].pc = "done", ![r].user = uid, ![r].key = key,
                 ![r].resp = FeedbackResp(200, existing)]

\* a lookup of the caller's own records only
StoredUnderKeyOfCaller(coll, uid, key) ==
    {f \in FindByIdempotencyKey(coll, key) : f.user = uid}

\* part_000 61: the handler looks the key up whoever the caller is
StoredUnderKey(coll, uid, key) == FindByIdempotencyKey(coll, key)

\* part_000 38-74: the caller's id (0: no credential), the body, the
\* required fields, FindByIdempotencyKey
FeedbackFind(r) ==
    /\ freq[r].pc = "idle"
    /\ \E in \in Submissions({u.id : u \in users}), err \in StoreErrs :
          IF in.uid = 0
          THEN freq' = FDone(r, FeedbackError(401, "unauthorized"))
          ELSE IF ~in.decoded
          THEN freq' = FDone(r, FeedbackError(400, "invalid request body"))
          ELSE IF in.payload.text = ""
          THEN freq' = FDone(r, FeedbackError(400, "feedback text is required"))
          ELSE IF in.key = ""
          THEN freq' = FDone(r, FeedbackError(400, "idempotency_key is required"))
          ELSE IF err
          THEN freq' = FDone(r, FeedbackError(500, "internal server error"))
          ELSE IF StoredUnderKey(feedbacks, in.uid, in.key) # {}
          THEN \E f \in StoredUnderKey(feedbacks, in.uid, in.key) :
                  freq' = Replayed(r, in.uid, in.key, f)
          ELSE freq' = [freq EXCEPT ![r].pc = "create", ![r].user = in.uid,
                                    ![r].payload = in.payload, ![r].key = in.key]
    /\ UNCHANGED <<now, indexes, outage, srv, oreq, tokens, users, nextUid, vreq, loginVars,
                   feedbacks, nextFid>>

\* a failed insert after which the publishing goroutine is started all the same
InsertFailedNotifying(r) ==
    [freq EXCEPT ![r].pc = "done", ![r].payload = NoPayload, ![r].notify = "started",
                 ![r].resp = FeedbackError(500, "failed to submit feedback")]

\* part_000 89-93: Create returned an error: log it, answer 500, return
InsertFailed(r) == FDone(r, FeedbackError(500, "failed to submit feedback"))

\* part_000 82-107: Create; a rejected insert is answered 500; an accepted
\* one starts the publishing goroutine and is answered 201
FeedbackCreate(r) ==
    /\ freq[r].pc = "create"
    /\ \E err \in StoreErrs :
       LET f == NewFeedback(nextFid, freq[r].user, freq[r].payload, freq[r].key, now)
       IN  IF ~err /\ FeedbackInsertAccepted(feedbacks, indexes, freq[r].key)
           THEN /\ feedbacks' = feedbacks \cup {f}
                /\ nextFid' = nextFid + 1
                /\ freq' = [freq EXCEPT ![r].pc = "done", ![r].notify = "started",
                                        ![r].payload = NoPayload,
                                        ![r].resp = FeedbackResp(201, f)]
           ELSE /\ freq' = InsertFailed(r)
                /\ UNCHANGED <<feedbacks, nextFid>>
    /\ UNCHANGED <<now, indexes, outage, srv, oreq, tokens, users, nextUid, vreq, loginVars>>

\* part_000 96-101: the goroutine publishes; a failure is only logged
FeedbackPublish(r) ==
    /\ freq[r].notify = "started"
    /\ \E ok \in BOOLEAN :
          freq' = [freq EXCEPT ![r].notify = IF ok THEN "published" ELSE "failed"]
    /\ UNCHANGED <<now, indexes, outage, srv, oreq, tokens, users, nextUid, vreq, loginVars,
                   feedbacks, nextFid>>

(* ------------------------------ environment ---------------------------- *)
\* time passes
ClockTick ==
    /\ now + Tick <= MaxTime
    /\ now' = now + Tick
    /\ UNCHANGED <<indexes, outage, srv, oreq, tokens, users, nextUid, vreq, loginVars, feedbackVars>>

\* the TTL monitor deletes a token whose expires_at has passed
TTLPurge ==
    /\ \E d \in Purgeable(tokens, now) : tokens' = tokens \ {d}
    /\ UNCHANGED <<now, indexes, outage, srv, oreq, users, nextUid, vreq, loginVars, feedbackVars>>

(* --------------------------- specifications ---------------------------- *)
\* In the three specifications below startup has created the indexes and
\* the database is in no outage.
\*
\* Redemption: NumTokens login tokens were issued at time 0, each for some
\* email; NumVerify verify requests arrive, concurrently, as time passes.
InitVerify ==
    /\ now = 0
    /\ indexes = AllIndexes
    /\ outage = FALSE
    /\ srv = Serving("secret")
    /\ oreq = ONone
    /\ \E owner \in [1 .. NumTokens -> Emails] :
          tokens = {IssuedToken(i, owner[i], i, 0) : i \in 1 .. NumTokens}
    /\ users = {}
    /\ nextUid = 1
    /\ vreq = [r \in 1 .. NumVerify |-> VIdle]
    /\ nextTid = NumTokens + 1
    /\ lreq = [r \in 1 .. NumLogin |-> LIdle]
    /\ feedbacks = {}
    /\ nextFid = 1
    /\ freq = [r \in 1 .. NumFeedback |-> FIdle]

NextVerify ==
    \/ \E r \in 1 .. NumVerify : VerifyFind(r)
    \/ \E r \in 1 .. NumVerify : VerifyCheck(r)
    \/ \E r \in 1 .. NumVerify : VerifyMark(r)
    \/ \E r \in 1 .. NumVerify : VerifyFindUser(r)
    \/ \E r \in 1 .. NumVerify : VerifyCreateUser(r)
    \/ ClockTick
    \/ TTLPurge

SpecVerify == InitVerify /\ [][NextVerify]_vars

\* Login requests: an empty store; the requests of slot 1 arrive one after
\* another as time passes and the TTL monitor runs.
InitLogin ==
    /\ now = 0
    /\ indexes = AllIndexes
    /\ outage = FALSE
    /\ srv = Serving("secret")
    /\ oreq = ONone
    /\ tokens = {}
    /\ users = {}
    /\ nextUid = 1
    /\ vreq = [r \in 1 .. NumVerify |-> VIdle]
    /\ nextTid = 1
    /\ lreq = [r \in 1 .. NumLogin |-> LIdle]
    /\ feedbacks = {}
    /\ nextFid = 1
    /\ freq = [r \in 1 .. NumFeedback |-> FIdle]

SequentialSlots == {1}

NextLogin ==
    \/ \E r \in SequentialSlots : LoginCount(r)
    \/ \E r \in SequentialSlots : LoginCreate(r)
    \/ \E r \in SequentialSlots : LoginEmail(r)
    \/ ClockTick
    \/ TTLPurge

SpecLogin == InitLogin /\ [][NextLogin]_vars

\* Feedback: one user per email has logged in; NumFeedback submissions
\* arrive concurrently.
InitFeedback ==
    /\ now = 0
    /\ indexes = AllIndexes
    /\ outage = FALSE
    /\ srv = Serving("secret")
    /\ oreq = ONone
    /\ tokens = {}
    /\ \E uid \in [Emails -> 1 .. Cardinality(Emails)] :
          /\ \A e1, e2 \in Emails : uid[e1] = uid[e2] => e1 = e2
          /\ users = {NewUser(uid[e], e) : e \in Emails}
    /\ nextUid = Cardinality(Emails) + 1
    /\ vreq = [r \in 1 .. NumVerify |-> VIdle]
    /\ nextTid = 1
    /\ lreq = [r \in 1 .. NumLogin |-> LIdle]
    /\ feedbacks = {}
    /\ nextFid = 1
    /\ freq = [r \in 1 .. NumFeedback |-> FIdle]

NextFeedback ==
    \/ \E r \in 1 .. NumFeedback : FeedbackFind(r)
    \/ \E r \in 1 .. NumFeedback : FeedbackCreate(r)
    \/ \E r \in 1 .. NumFeedback : FeedbackPublish(r)

SpecFeedback == InitFeedback /\ [][NextFeedback]_vars

\* Delivery: the users of InitFeedback ask for login links and submit
\* feedback, one request after another, as time passes and the TTL monitor
\* runs; at most NumTokens links are asked for.
NextDelivery ==
    \/ \E r \in SequentialSlots : nextTid <= NumTokens /\ LoginCount(r)
    \/ \E r \in SequentialSlots : LoginCreate(r)
    \/ \E r \in SequentialSlots : LoginEmail(r)
    \/ \E r \in SequentialSlots : FeedbackFind(r)
    \/ \E r \in SequentialSlots : FeedbackCreate(r)
    \/ \E r \in SequentialSlots : FeedbackPublish(r)
    \/ ClockTick
    \/ TTLPurge

SpecDelivery == InitFeedback /\ [][NextDelivery]_vars

\* Onboarding: the tokens of InitVerify are redeemed, one request after
\* another, while callers complete their onboarding and a feedback
\* submission is handled.
NextOnboarding ==
    \/ \E r \in 1 .. NumVerify :
          /\ \A q \in 1 .. NumVerify :
                vreq[q].pc = IF q < r THEN "done" ELSE "idle"
          /\ VerifyFind(r)
    \/ \E r \in 1 .. NumVerify : VerifyCheck(r)
    \/ \E r \in 1 .. NumVerify : VerifyMark(r)
    \/ \E r \in 1 .. NumVerify : VerifyFindUser(r)
    \/ \E r \in 1 .. NumVerify : VerifyCreateUser(r)
    \/ CompleteOnboarding
    \/ \E r \in SequentialSlots : FeedbackFind(r)
    \/ \E r \in SequentialSlots : FeedbackCreate(r)
    \/ \E r \in SequentialSlots : FeedbackPublish(r)

SpecOnboarding == InitVerify /\ [][NextOnboarding]_vars

\* Token life cycle: from the empty store of InitLogin at most NumTokens
\* login links are asked for, one request after another, while one verify
\* request arrives, as time passes and the TTL monitor runs.
NextLifecycle ==
    \/ \E r \in SequentialSlots : nextTid <= NumTokens /\ LoginCount(r)
    \/ \E r \in SequentialSlots : LoginCreate(r)
    \/ \E r \in SequentialSlots : LoginEmail(r)
    \/ \E r \in SequentialSlots : VerifyFind(r)
    \/ \E r \in SequentialSlots : VerifyCheck(r)
    \/ \E r \in SequentialSlots : VerifyMark(r)
    \/ \E r \in SequentialSlots : VerifyFindUser(r)
    \/ \E r \in SequentialSlots : VerifyCreateUser(r)
    \/ ClockTick
    \/ TTLPurge

SpecLifecycle == InitLogin /\ [][NextLifecycle]_vars

\* Outage: as InitFeedback, but any store operation may return an error.
\* One login request arrives, and the feedback submissions arrive one after
\* another.
InitOutage ==
    /\ now = 0
    /\ indexes = AllIndexes
    /\ outage = TRUE
    /\ srv = Serving("secret")
    /\ oreq = ONone
    /\ tokens = {}
    /\ \E uid \in [Emails -> 1 .. Cardinality(Emails)] :
          /\ \A e1, e2 \in Emails : uid[e1] = uid[e2] => e1 = e2
          /\ users = {NewUser(uid[e], e) : e \in Emails}
    /\ nextUid = Cardinality(Emails) + 1
    /\ vreq = [r \in 1 .. NumVerify |-> VIdle]
    /\ nextTid = 1
    /\ lreq = [r \in 1 .. NumLogin |-> LIdle]
    /\ feedbacks = {}
    /\ nextFid = 1
    /\ freq = [r \in 1 .. NumFeedback |-> FIdle]

NextOutage ==
    \/ \E r \in SequentialSlots : lreq[r].pc = "idle" /\ LoginCount(r)
    \/ \E r \in SequentialSlots : LoginCreate(r)
    \/ \E r \in SequentialSlots : LoginEmail(r)
    \/ \E r \in 1 .. NumFeedback :
          /\ \A q \in 1 .. NumFeedback :
                freq[q].pc = IF q < r THEN "done" ELSE "idle"
          /\ FeedbackFind(r)
    \/ \E r \in 1 .. NumFeedback : FeedbackCreate(r)
    \/ \E r \in 1 .. NumFeedback : FeedbackPublish(r)

SpecOutage == InitOutage /\ [][NextOutage]_vars

\* Startup: the database holds the tokens of InitVerify and no index yet;
\* main() runs, and verify requests are handled once it serves.
InitStartup ==
    /\ now = 0
    /\ indexes = {}
    /\ outage = FALSE
    /\ srv = Booting
    /\ oreq = ONone
    /\ \E owner \in [1 .. NumTokens -> Emails] :
          tokens = {IssuedToken(i, owner[i], i, 0) : i \in 1 .. NumTokens}
    /\ users = {}
    /\ nextUid = 1
    /\ vreq = [r \in 1 .. NumVerify |-> VIdle]
    /\ nextTid = NumTokens + 1
    /\ lreq = [r \in 1 .. NumLogin |-> LIdle]
    /\ feedbacks = {}
    /\ nextFid = 1
    /\ freq = [r \in 1 .. NumFeedback |-> FIdle]

NextStartup ==
    \/ Main
    \/ srv.pc = "serving" /\ \E r \in 1 .. NumVerify : VerifyFind(r)
    \/ srv.pc = "serving" /\ \E r \in 1 .. NumVerify : VerifyCheck(r)
    \/ srv.pc = "serving" /\ \E r \in 1 .. NumVerify : VerifyMark(r)
    \/ srv.pc = "serving" /\ \E r \in 1 .. NumVerify : VerifyFindUser(r)
    \/ srv.pc = "serving" /\ \E r \in 1 .. NumVerify : VerifyCreateUser(r)

SpecStartup == InitStartup /\ [][NextStartup]_vars

\* Concurrent logins: RateLimit - 1 login links were issued to one email at
\* time 0; NumLogin login requests arrive concurrently as time passes.
InitLoginRace ==
    /\ now = 0
    /\ indexes = AllIndexes
    /\ outage = FALSE
    /\ srv = Serving("secret")
    /\ oreq = ONone
    /\ \E e \in Emails :
          tokens = {IssuedToken(i, e, i, 0) : i \in 1 .. (RateLimit - 1)}
    /\ users = {}
    /\ nextUid = 1
    /\ vreq = [r \in 1 .. NumVerify |-> VIdle]
    /\ nextTid = RateLimit
    /\ lreq = [r \in 1 .. NumLogin |-> LIdle]
    /\ feedbacks = {}
    /\ nextFid = 1
    /\ freq = [r \in 1 .. NumFeedback |-> FIdle]

NextLoginRace ==
    \/ \E r \in 1 .. NumLogin : LoginCount(r)
    \/ \E r \in 1 .. NumLogin : LoginCreate(r)
    \/ \E r \in 1 .. NumLogin : LoginEmail(r)
    \/ ClockTick

SpecLoginRace == InitLoginRace /\ [][NextLoginRace]_vars


(* ----------------------- claims on token redemption -------------------- *)
Verifies == 1 .. NumVerify
UsedResp == ErrorResp(401, "token has already been used")
ExpiredResp == ErrorResp(401, "token has expired")

\* r passed the expiry and used checks: it found the token stored, unexpired
\* and unused
PassedChecks(r) == vreq[r].pc = "mark" \/ vreq[r].modified # -1

\* the requests that ran concurrently on the valid token tv: each found it
\* stored, unexpired and unused, and none began after a 200 on it
Redeemers(tv) ==
    {r \in Verifies : vreq[r].token = tv /\ PassedChecks(r) /\ ~vreq[r].after200}

\* C1: of two or more verify requests that ran concurrently on one valid
\* token and have all been answered, exactly one was answered 200.
C1_OneConcurrentSuccess ==
    \A tv \in 1 .. NumTokens :
        ( /\ Cardinality(Redeemers(tv)) >= 2
          /\ \A r \in Redeemers(tv) : vreq[r].pc = "done" )
        => Cardinality({r \in Redeemers(tv) : vreq[r].resp.code = 200}) = 1

\* C2: a verify request that begins after another request on the same token
\* value has answered 200 never answers 200, and if it is answered before
\* the token's expiry it is answered 401 "token has already been used".
C2_SequentialSingleUse ==
    \A r \in Verifies :
        (vreq[r].pc = "done" /\ vreq[r].after200) =>
            /\ vreq[r].resp.code # 200
            /\ \A d \in FindByToken(tokens, vreq[r].token) :
                  now < d.expires => vreq[r].resp = UsedResp

\* C2 witness: a second, later call on a redeemed token was answered
\* already-used before the expiry
C2_Witness ==
    \E r \in Verifies :
        /\ vreq[r].pc = "done" /\ vreq[r].after200
        /\ vreq[r].resp = UsedResp
        /\ \E d \in FindByToken(tokens, vreq[r].token) : now < d.expires

\* C3: a verify request answers 200 only if its own mark-used update changed
\* the stored flag from false to true (ModifiedCount = 1).
C3_SuccessOnlyIfOwnUpdate ==
    \A r \in Verifies : vreq[r].resp.code = 200 => vreq[r].modified = 1

\* C4: the expiry check made at a time now >= expiry answers 401 "token has
\* expired", and no request passes the check or answers 200 at such a time.
C4_ExpiredFromExpiryOn ==
    [][\A r \in Verifies : \A t \in vreq[r].authToken :
          /\ (vreq[r].pc = "check" /\ vreq'[r].pc # "check" /\ now >= t.expires)
                => vreq'[r].resp = ExpiredResp
          /\ (vreq[r].resp.code # 200 /\ vreq'[r].resp.code = 200)
                => now < t.expires]_vars

\* C9: the user store holds at most one record per email.
C9_OneUserPerEmail ==
    \A u1, u2 \in users : u1.email = u2.email => u1 = u2

\* C9 witness: two requests redeeming different tokens of one never-seen
\* email both attempted the insert; one created the user, the other's insert
\* was rejected
C9_Witness ==
    \E r1, r2 \in Verifies :
        /\ vreq[r1].token # vreq[r2].token
        /\ \E t1 \in vreq[r1].authToken : \E t2 \in vreq[r2].authToken :
              t1.email = t2.email /\ Cardinality(FindByEmail(users, t1.email)) = 1
        /\ vreq[r1].pc = "done" /\ vreq[r1].resp.code = 200
        /\ vreq[r2].pc = "done" /\ vreq[r2].resp.code = 500

\* C10: a FindOrCreate insert step, lost race included, ends with a 200 that
\* carries the stored user record of the token's email.
C10_LoserGetsWinner ==
    [][\A r \in Verifies :
          (vreq[r].pc = "createUser" /\ vreq'[r].pc = "done") =>
              /\ vreq'[r].resp.code = 200
              /\ vreq'[r].resp.user \subseteq users'
              /\ \A t \in vreq[r].authToken :
                    vreq'[r].resp.user = FindByEmail(users', t.email)]_vars


(* -------------------------- claims on the rate limit ------------------- *)
\* the token records of email e created within the trailing window
RecentTokens(e, clock) ==
    {d \in tokens : d.email = e /\ d.created >= clock - WindowMinutes}

\* C5: for requests issued one after another, a login request for an email
\* with 5 or more tokens created at or after now - 10 minutes is answered
\* 429, and one with fewer goes on to create a token: unless the store
\* rejects the insert, a record for that email, created now, is stored.
C5_SlidingWindowLimit ==
    [][\A r \in SequentialSlots :
          /\ ( /\ lreq[r].pc \in {"idle", "done"}
               /\ lreq'[r] # lreq[r]
               /\ lreq'[r].email # "" )
             => IF Cardinality(RecentTokens(lreq'[r].email, now)) >= 5
                THEN lreq'[r].pc = "done" /\ lreq'[r].resp.code = 429
                ELSE lreq'[r].pc = "create"
          /\ (lreq[r].pc = "create" /\ lreq'[r].pc # "create")
             => \/ \E d \in tokens' \ tokens :
                      /\ tokens' = tokens \cup {d}
                      /\ d.email = lreq[r].email
                      /\ d.created = now
                      /\ d.token = lreq'[r].token
                \/ lreq'[r].resp.code = 500 /\ tokens' = tokens]_vars

\* C5 witness: after a request was answered 429, the window slid past the
\* oldest tokens and a sixth token of the same email was created
C5_Witness ==
    \E r \in SequentialSlots :
        /\ lreq[r].pc = "email"
        /\ lreq[r].prev = 429
        /\ Cardinality({d \in tokens : d.email = lreq[r].email}) >= 6
        /\ Cardinality(RecentTokens(lreq[r].email, now)) < 6

(* ----------------------- claims on feedback submission ----------------- *)
Submits == 1 .. NumFeedback

\* C6: the feedback store holds at most one record per idempotency key, and
\* every submission answered 200 or 201 returns the stored record of its key.
C6_OneRecordPerKey ==
    /\ \A k \in Keys : Cardinality(FindByIdempotencyKey(feedbacks, k)) <= 1
    /\ \A r \in Submits :
          (freq[r].pc = "done" /\ freq[r].resp.code \in {200, 201})
              => freq[r].resp.feedback = FindByIdempotencyKey(feedbacks, freq[r].key)

\* C6 witness: a submission created the record and a second one with the
\* same key was answered 200 with that record
C6_Witness ==
    \E r1, r2 \in Submits :
        /\ freq[r1].pc = "done" /\ freq[r1].resp.code = 201
        /\ freq[r2].pc = "done" /\ freq[r2].resp.code = 200
        /\ freq[r1].key = freq[r2].key
        /\ freq[r1].resp.feedback = freq[r2].resp.feedback

\* C7: a submission whose insert the uniqueness constraint rejects is
\* answered 200 with the stored record of its key.
C7_RejectedInsertReplays ==
    [][\A r \in Submits :
          ( /\ freq[r].pc = "create" /\ freq'[r].pc = "done"
            /\ FindByIdempotencyKey(feedbacks, freq[r].key) # {} )
          => /\ freq'[r].resp.code = 200
             /\ freq'[r].resp.feedback = FindByIdempotencyKey(feedbacks, freq[r].key)]_vars

\* C8: only a submission whose insert created the record starts a
\* notification, and no two submissions with one key start one.
C8_NotifyOnlyOnCreate ==
    /\ \A r \in Submits :
          freq[r].notify # "none"
              => /\ freq[r].resp.code = 201
                 /\ freq[r].resp.feedback \subseteq feedbacks
    /\ \A r1, r2 \in Submits :
          (r1 # r2 /\ freq[r1].notify # "none" /\ freq[r2].notify # "none")
              => freq[r1].key # freq[r2].key

\* C8 witness: of two submissions that raced on one key, the one whose
\* insert was rejected started no notification, the other started one
C8_Witness ==
    \E r1, r2 \in Submits :
        /\ freq[r1].key = freq[r2].key
        /\ freq[r1].resp.code = 201 /\ freq[r1].notify # "none"
        /\ freq[r2].resp.code = 500 /\ freq[r2].notify = "none"

(* ------------------------- claims on delivery -------------------------- *)
DelayedResp == MessageResp("login link generated (email delivery may be delayed)")

\* C11: a delivery failure never fails the request.  The step that sends the
\* login email answers 200 whether the send fails or not and leaves the token
\* records as they are; the token of a login answered after a failed send
\* stays stored, unchanged and unused, until the TTL monitor may delete it.
\* The feedback request is answered 201 by the step that stores the record,
\* before the publish ends, and a publish that fails leaves that answer and
\* the stored record as they were.
C11_DeliveryFailureHarmless ==
    [][/\ \A r \in 1 .. NumLogin :
            /\ (lreq[r].pc = "email" /\ lreq'[r].pc = "done")
                  => /\ lreq'[r].resp.code = 200
                     /\ tokens' = tokens
                     /\ \A d \in FindByToken(tokens, lreq[r].token) :
                            ~d.used /\ ~IsExpired(d, d.created)
            /\ (lreq[r].pc = "done" /\ lreq[r].resp = DelayedResp /\ lreq'[r] = lreq[r])
                  => \A d \in FindByToken(tokens, lreq[r].token) :
                        d \in tokens' \/ d \in Purgeable(tokens, now)
       /\ \A r \in 1 .. NumFeedback :
            /\ (freq[r].pc = "create" /\ freq'[r].resp.code = 201)
                  => freq'[r].pc = "done" /\ freq'[r].notify = "started"
            /\ (freq[r].notify = "started" /\ freq'[r].notify # "started")
                  => /\ freq[r].pc = "done" /\ freq[r].resp.code = 201
                     /\ freq'[r].resp = freq[r].resp /\ freq'[r].pc = "done"
                     /\ feedbacks' = feedbacks
                     /\ freq[r].resp.feedback \subseteq feedbacks']_vars

\* a login answered 200 after a failed send with its token stored and unused,
\* and a feedback answered 201 whose publish failed with its record stored
C11_Witness ==
    \E r \in 1 .. NumLogin, q \in 1 .. NumFeedback :
        /\ lreq[r].pc = "done" /\ lreq[r].resp = DelayedResp
        /\ \E d \in FindByToken(tokens, lreq[r].token) : ~d.used /\ ~IsExpired(d, now)
        /\ freq[q].notify = "failed" /\ freq[q].resp.code = 201
        /\ freq[q].resp.feedback \subseteq feedbacks

C13_OnboardingMonotonic ==
    [][/\ \A u \in users :
            u.onboarding => \E v \in users' : v.id = u.id /\ v.onboarding
       /\ \A v \in users' :
            (\A u \in users : u.id # v.id) => ~v.onboarding
       /\ (oreq' # oreq /\ oreq'.resp.code = 200)
            => \A v \in users' : v.id = oreq'.user => v.onboarding]_vars

\* the user completed onboarding, then a second token for the same email
\* was redeemed with 200 and a feedback was stored: the flag is still true
C13_Witness ==
    \E r, q \in Verifies :
        /\ r # q /\ vreq[r].resp.code = 200 /\ vreq[q].resp.code = 200
        /\ vreq[r].token # vreq[q].token
        /\ {t.email : t \in vreq[r].authToken} = {t.email : t \in vreq[q].authToken}
        /\ \E u \in vreq[r].resp.user : ~u.onboarding
        /\ \E u \in vreq[q].resp.user : u.onboarding /\ u \in users
        /\ oreq.resp.code = 200
        /\ feedbacks # {}

(* ------------------------ claims on the rate limit --------------------- *)
\* C14: the rate-limit check only reads.  The step that answers 429 ends
\* the request with no token generated and leaves the token records and the
\* id counter as they were; an email is sent only by a request whose token
\* was stored; the number of recent tokens of an email grows only in a step
\* in which a request for that email stores its token.
C14_RateLimitReadOnly ==
    [][/\ \A r \in 1 .. NumLogin :
            /\ (lreq'[r] # lreq[r] /\ lreq'[r].resp.code = 429)
                  => /\ tokens' = tokens /\ nextTid' = nextTid
                     /\ lreq'[r].pc = "done" /\ lreq'[r].token = 0
            /\ (lreq'[r] # lreq[r] /\ lreq'[r].resp.message # "")
                  => /\ lreq[r].pc = "email" /\ lreq[r].resp.code # 429
                     /\ lreq[r].token # 0
       /\ \A e \in Emails :
            (/\ <<tokens, now>>' # <<tokens, now>>
             /\ CountRecentByEmail(tokens', e, now', WindowMinutes)
                   > CountRecentByEmail(tokens, e, now, WindowMinutes))
            => \E r \in 1 .. NumLogin :
                  /\ lreq[r].pc = "create" /\ lreq'[r].pc = "email"
                  /\ lreq[r].email = e /\ lreq[r].resp.code # 429]_vars

\* a request is answered 429 while its email has RateLimit recent tokens,
\* right after a request that was answered 200
C14_Witness ==
    \E r \in 1 .. NumLogin :
        /\ lreq[r].pc = "done" /\ lreq[r].resp.code = 429 /\ lreq[r].token = 0
        /\ lreq[r].prev = 200
        /\ CountRecentByEmail(tokens, lreq[r].email, now, WindowMinutes) = RateLimit
        /\ nextTid = RateLimit + 1

(* ----------------------- claims on the token record -------------------- *)
\* C15: a token record enters the store unused and with its expiry
\* ExpiryMinutes after the time it is issued at; no two stored records share
\* a token value; a stored record changes in nothing but its used flag, and
\* that only from false to true.
C15_TokenRecordShape ==
    /\ [](\A d1, d2 \in tokens : d1.token = d2.token => d1 = d2)
    /\ [][/\ \A d \in tokens' :
                (\A c \in tokens : c.id # d.id)
                   => /\ ~d.used
                      /\ d.created = now
                      /\ d.expires = now + ExpiryMinutes
          /\ \A old \in tokens : \A d \in tokens' :
                d.id = old.id => /\ [d EXCEPT !.used = old.used] = old
                                 /\ old.used => d.used]_vars

\* two records with different token values are stored, one of them
\* redeemed, and a request whose uuid was taken was answered 500
C15_Witness ==
    /\ Cardinality({d.token : d \in tokens}) = 2
    /\ \E d \in tokens : d.used
    /\ \E d \in tokens : ~d.used
    /\ \E r \in 1 .. NumLogin : lreq[r].pc = "done" /\ lreq[r].prev = 500

(* ----------------------- claims on failed writes ----------------------- *)
\* C16: a store write that fails has no effect.  The step in which token
\* creation is answered 500 ends the request, sends no email and leaves the
\* token records, and so every email's recent count, as they were.  The
\* step in which the feedback insert fails while no record holds the key
\* ends the request with no publish started and the feedback records as
\* they were, still none for that key; and a submission whose key no record
\* holds is handled as new: it goes on to create the record.
C16_FailedWriteNoEffect ==
    [][/\ \A r \in 1 .. NumLogin :
            (lreq[r].pc = "create" /\ lreq'[r].resp.code = 500)
               => /\ tokens' = tokens /\ nextTid' = nextTid
                  /\ lreq'[r].pc = "done" /\ lreq'[r].resp.message = ""
                  /\ \A e \in Emails :
                        CountRecentByEmail(tokens', e, now', WindowMinutes)
                           = CountRecentByEmail(tokens, e, now, WindowMinutes)
       /\ \A r \in 1 .. NumLogin :
            (lreq'[r] # lreq[r] /\ lreq'[r].resp.message # "")
               => lreq[r].pc = "email" /\ lreq[r].resp.code # 500
       /\ \A r \in 1 .. NumFeedback :
            /\ (/\ freq[r].pc = "create" /\ freq'[r].resp.code = 500
                 /\ FindByIdempotencyKey(feedbacks, freq[r].key) = {})
                  => /\ feedbacks' = feedbacks /\ nextFid' = nextFid
                     /\ freq'[r].pc = "done" /\ freq'[r].notify = "none"
                     /\ FindByIdempotencyKey(feedbacks', freq[r].key) = {}
            /\ (/\ freq[r].pc = "idle" /\ freq'[r].key # ""
                 /\ FindByIdempotencyKey(feedbacks, freq'[r].key) = {})
                  => freq'[r].pc = "create"
            /\ (freq[r].notify = "none" /\ freq'[r].notify # "none")
                  => freq'[r].resp.code = 201]_vars

\* token creation failed with nothing stored, and a feedback insert failed
\* with no record for its key, after which a submission with the same key
\* was stored and answered 201
C16_Witness ==
    /\ \E r \in 1 .. NumLogin :
          /\ lreq[r].resp = LoginError(500, "failed to create login token")
          /\ tokens = {}
    /\ \E r, q \in 1 .. NumFeedback :
          /\ r < q
          /\ freq[r].resp = FeedbackError(500, "failed to submit feedback")
          /\ freq[q].resp.code = 201 /\ freq[q].key = freq[r].key
          /\ Cardinality(FindByIdempotencyKey(feedbacks, freq[r].key)) = 1

(* --------------------- claims on the order of checks ------------------- *)
\* C17: VerifyToken checks in a fixed order.  An absent token parameter is
\* answered 400; a value no record holds 401 invalid; a record past its
\* expiry 401 expired, used or not; an unexpired used record 401 already
\* used; only a request whose record passed all of these goes on to mark it,
\* and a used flag is set only by such a request.  A request answered 400
\* or 401 changes no token record, creates no user and never ran MarkUsed.
C17_CheckOrder ==
    [][/\ \A r \in Verifies :
            /\ (vreq[r].pc = "idle" /\ vreq'[r].pc # "idle")
                  => IF vreq'[r].token = 0
                     THEN vreq'[r] = [VIdle EXCEPT !.pc = "done",
                                         !.resp = ErrorResp(400, "token is required")]
                     ELSE IF FindByToken(tokens, vreq'[r].token) = {}
                     THEN /\ vreq'[r].pc = "done"
                          /\ vreq'[r].resp = ErrorResp(401, "invalid token")
                     ELSE /\ vreq'[r].pc = "check"
                          /\ vreq'[r].authToken \subseteq FindByToken(tokens, vreq'[r].token)
            /\ (vreq[r].pc = "check" /\ vreq'[r].pc # "check")
                  => \A t \in vreq[r].authToken :
                        IF now > t.expires
                        THEN vreq'[r].pc = "done" /\ vreq'[r].resp = ExpiredResp
                        ELSE IF t.used
                        THEN vreq'[r].pc = "done" /\ vreq'[r].resp = UsedResp
                        ELSE vreq'[r].pc = "mark"
            /\ (vreq'[r] # vreq[r] /\ vreq'[r].resp.code \in {400, 401})
                  => /\ tokens' = tokens /\ users' = users
                     /\ vreq'[r].modified = -1
       /\ \A d \in tokens : \A c \in tokens' :
            (c.id = d.id /\ c.used /\ ~d.used)
               => \E r \in Verifies :
                     /\ vreq[r].pc = "mark" /\ vreq'[r].pc = "findUser"
                     /\ vreq[r].token = d.token
                     /\ \A t \in vreq[r].authToken : ~t.used]_vars

\* a token that is both used and past its expiry was answered 401 expired
C17_Witness ==
    \E r \in Verifies : \E t \in vreq[r].authToken :
        /\ vreq[r].pc = "done" /\ vreq[r].resp = ExpiredResp
        /\ t.used /\ now > t.expires

(* -------------------------- claims on startup -------------------------- *)
\* C18: the server serves only with its configuration in place.  main()
\* reaches serving only with MONGODB_URI and JWT_SECRET non-empty and the
\* database connected, and ends fatally otherwise; no verify request is
\* handled unless the server is serving, and every credential is signed
\* with a non-empty key.
C18_ServesOnlyWithSecret ==
    /\ srv.pc = "serving"
          => srv.mongoURI # "" /\ srv.jwtSecret # "" /\ srv.connected
    /\ (srv.pc # "boot" /\ (srv.mongoURI = "" \/ srv.jwtSecret = "" \/ ~srv.connected))
          => srv.pc = "fatal"
    /\ \A r \in Verifies :
          /\ vreq[r].pc # "idle" => srv.pc = "serving" /\ srv.jwtSecret # ""
          /\ \A c \in vreq[r].resp.token : c.key # ""

\* the server started with a secret and answered a redemption with a
\* credential signed with it
C18_Witness ==
    /\ srv.pc = "serving"
    /\ \E r \in Verifies :
          /\ vreq[r].resp.code = 200
          /\ \E c \in vreq[r].resp.token : c.key = srv.jwtSecret /\ c.key # ""

(* --------------------- claims on concurrent requests ------------------- *)
\* C19: under concurrent login requests for one email, the tokens of that
\* email created in the trailing WindowMinutes never number more than
\* RateLimit.
C19_ConcurrentLimit ==
    \A e \in Emails : Cardinality(RecentTokens(e, now)) <= RateLimit

\* C20: a token is never consumed without a session.  A verify request
\* whose MarkUsed set the used flag (ModifiedCount 1) ends with 200 and a
\* credential.
C20_ConsumedMeansSession ==
    \A r \in Verifies :
        (vreq[r].pc = "done" /\ vreq[r].modified = 1)
           => vreq[r].resp.code = 200 /\ vreq[r].resp.token # {}

\* C21: the three uniqueness constraints are in force whenever the server
\* handles requests: main() does not reach serving, and no verify request is
\* handled, while the index on token, on email or on idempotency_key is
\* missing.
C21_ServesOnlyWithIndexes ==
    /\ srv.pc = "serving" => indexes = AllIndexes
    /\ \A r \in Verifies : vreq[r].pc # "idle" => indexes = AllIndexes

(* ---------------------- claims on the TTL monitor ----------------------- *)
\* C22: the TTL monitor never changes a rate-limit decision.  At every
\* moment every token record the monitor may delete was created before the
\* trailing window began, so for every email CountRecentByEmail, and with it
\* the comparison against the limit, is the same on the store as it is and
\* on the store with the purgeable records deleted.
C22_PurgeKeepsCount ==
    /\ \A d \in Purgeable(tokens, now) : d.created < now - WindowMinutes
    /\ \A e \in Emails :
          LET purged == tokens \ Purgeable(tokens, now)
          IN  /\ CountRecentByEmail(purged, e, now, WindowMinutes)
                    = CountRecentByEmail(tokens, e, now, WindowMinutes)
              /\ RateLimited(CountRecentByEmail(purged, e, now, WindowMinutes))
                    = RateLimited(CountRecentByEmail(tokens, e, now, WindowMinutes))

\* the monitor has deleted a record and may delete another of the same
\* email, while a request for that email has just passed the count with
\* recent tokens in the window
C22_Witness ==
    \E r \in SequentialSlots :
        /\ lreq[r].pc = "create"
        /\ Cardinality(tokens) < nextTid - 1
        /\ \E d \in Purgeable(tokens, now) : d.email = lreq[r].email
        /\ RecentTokens(lreq[r].email, now) # {}

(* ------------------- claims on the scope of the keys ------------------- *)
\* C23: idempotency keys are global.  When a submission arrives with a key
\* under which another user's record is stored, the step that looks the key
\* up answers 200 with that record, stores nothing and starts no publish;
\* and a request answered with a record of another user has no publish.
C23_KeysAreGlobal ==
    [][\A r \in Submits :
         /\ (vars' # vars /\ freq[r].pc = "idle" /\ freq'[r].key # "")
              => \A f \in FindByIdempotencyKey(feedbacks, freq'[r].key) :
                    f.user # freq'[r].user
                      => /\ freq'[r].pc = "done"
                         /\ freq'[r].resp = FeedbackResp(200, f)
                         /\ freq'[r].notify = "none"
                         /\ feedbacks' = feedbacks /\ nextFid' = nextFid
         /\ \A f \in freq[r].resp.feedback :
              f.user # freq[r].user
                 => freq[r].resp.code = 200 /\ freq'[r].notify = "none"]_vars

\* user B was answered 200 with the record user A stored under the key;
\* no record of B is stored and no publish was started for B's request
C23_Witness ==
    \E r \in Submits : \E f \in freq[r].resp.feedback :
        /\ freq[r].pc = "done" /\ freq[r].resp.code = 200
        /\ f.user # freq[r].user /\ f.key = freq[r].key /\ f \in feedbacks
        /\ \A g \in feedbacks : g.user # freq[r].user
        /\ freq[r].notify = "none"

=============================================================================
